---- MODULE Spec2Model ----
(***************************************************************************)
(* AirAware: the AQI aggregation and caching engine.                       *)
(*                                                                         *)
(*   utils/aqi_calculator.py  breakpoint interpolation, index aggregation  *)
(*   utils/data_fetcher.py    TTL cache, OpenAQ / weather retrieval,       *)
(*                            multi-station merge, demo synthesizer,       *)
(*                            get_city_data                                *)
(*   app.py                   find_city and the entry points that take a   *)
(*                            location identifier                          *)
(*                                                                         *)
(* Concentrations are fixed-point numbers in hundredths of the pollutant's *)
(* unit (Num(25000) is 250.0), times are seconds.                          *)
(***************************************************************************)
EXTENDS Integers, Sequences, FiniteSets, TLC

VARIABLES
    now,              \* time.time(), in seconds
    WEATHER_API_KEY,  \* os.environ.get("WEATHER_API_KEY", ""), read once at import
    cache,            \* _cache: key -> None or (data, timestamp)
    pc,               \* where each request thread stands
    entry,            \* the entry point a request came through
    slug,             \* the location identifier it was given
    city_info,        \* the catalog entry the entry point resolved
    fetched,          \* get_city_data: what fetch_aqi_from_openaq returned (line 589)
    pollutants,       \* get_city_data: the local `pollutants` from line 597 on
    data_source,      \* get_city_data: the local `data_source`
    result,           \* what the entry point handed back
    calc_in,          \* argument of a direct call of calculate_aqi
    calc_out,         \* its return value
    demo_calls        \* direct calls of get_demo_aqi_data so far: city, hour, value returned

vars == <<now, WEATHER_API_KEY, cache, pc, entry, slug, city_info, fetched, pollutants,
          data_source, result, calc_in, calc_out, demo_calls>>

reqVars == <<pc, entry, slug, city_info, fetched, pollutants, data_source, result>>
calcVars == <<calc_in, calc_out, demo_calls>>
sharedVars == <<now, WEATHER_API_KEY, cache>>

-----------------------------------------------------------------------------
(* Python values.  Every value that may be None is a tagged record, so that *)
(* any two of them can be compared.                                         *)

None == [t |-> "None"]
Num(n) == [t |-> "num", n |-> n]
Str(s) == [t |-> "str", s |-> s]
\* a dict: its items as <<key, value>> pairs in insertion order
Dict(items) == [t |-> "dict", items |-> items]

IsNum(v) == v.t = "num"

\* bool(v) as `if cached:` evaluates it
Truthy(v) ==
    CASE v.t = "None" -> FALSE
      [] v.t = "dict" -> Len(v.items) > 0
      [] v.t = "num" -> v.n # 0
      [] OTHER -> TRUE

Keys(d) == {d.items[i][1] : i \in 1..Len(d.items)}

\* d.get(k): the value under k, None when d has no k
DictGet(d, k) ==
    IF k \in Keys(d)
    THEN (CHOOSE it \in {d.items[i] : i \in 1..Len(d.items)} : it[1] = k)[2]
    ELSE None

\* d[k] = v: overwrite in place, or append a new key
DictPut(d, k, v) ==
    IF k \in Keys(d)
    THEN Dict([i \in 1..Len(d.items) |->
                  IF d.items[i][1] = k THEN <<k, v>> ELSE d.items[i]])
    ELSE Dict(Append(d.items, <<k, v>>))

\* all(v is None for v in d.values())
AllNone(d) == \A i \in 1..Len(d.items) : d.items[i][2] = None

POLLUTANTS == <<"pm25", "pm10", "no2", "so2", "co", "o3">>

-----------------------------------------------------------------------------
(* utils/aqi_calculator.py                                                  *)

Bp(lc, hc, la, ha) == [low_conc |-> lc, high_conc |-> hc, low_aqi |-> la, high_aqi |-> ha]

\* data/aqi_breakpoints.json, pm25: the CPCB bands as get_demo_aqi_data documents them
BREAKPOINTS_pm25 ==
    << Bp(0, 3000, 0, 50), Bp(3100, 6000, 51, 100), Bp(6100, 9000, 101, 200),
       Bp(9100, 12000, 201, 300), Bp(12100, 25000, 301, 400), Bp(25100, 50000, 401, 500) >>

\* data/aqi_breakpoints.json, the other pollutants: the CPCB bands
BREAKPOINTS_other ==
    [ pm10 |-> << Bp(0, 5000, 0, 50), Bp(5100, 10000, 51, 100), Bp(10100, 25000, 101, 200),
                  Bp(25100, 35000, 201, 300), Bp(35100, 43000, 301, 400), Bp(43100, 60000, 401, 500) >>,
      no2  |-> << Bp(0, 4000, 0, 50), Bp(4100, 8000, 51, 100), Bp(8100, 18000, 101, 200),
                  Bp(18100, 28000, 201, 300), Bp(28100, 40000, 301, 400), Bp(40100, 100000, 401, 500) >>,
      so2  |-> << Bp(0, 4000, 0, 50), Bp(4100, 8000, 51, 100), Bp(8100, 38000, 101, 200),
                  Bp(38100, 80000, 201, 300), Bp(80100, 160000, 301, 400), Bp(160100, 200000, 401, 500) >>,
      co   |-> << Bp(0, 100, 0, 50), Bp(110, 200, 51, 100), Bp(210, 1000, 101, 200),
                  Bp(1010, 1700, 201, 300), Bp(1710, 3400, 301, 400), Bp(3410, 5000, 401, 500) >>,
      o3   |-> << Bp(0, 5000, 0, 50), Bp(5100, 10000, 51, 100), Bp(10100, 16800, 101, 200),
                  Bp(16900, 20800, 201, 300), Bp(20900, 74800, 301, 400), Bp(74900, 100000, 401, 500) >> ]

BREAKPOINTS == [pm25 |-> BREAKPOINTS_pm25] @@ BREAKPOINTS_other

\* AQI_CATEGORIES with the Moderate band starting one index late
AQI_CATEGORIES_gap ==
    << [min |-> 0,   max |-> 50,  category |-> "Good"],
       [min |-> 51,  max |-> 100, category |-> "Satisfactory"],
       [min |-> 102, max |-> 200, category |-> "Moderate"],
       [min |-> 201, max |-> 300, category |-> "Poor"],
       [min |-> 301, max |-> 400, category |-> "Very Poor"],
       [min |-> 401, max |-> 500, category |-> "Severe"] >>

AQI_CATEGORIES ==
    << [min |-> 0,   max |-> 50,  category |-> "Good"],
       [min |-> 51,  max |-> 100, category |-> "Satisfactory"],
       [min |-> 101, max |-> 200, category |-> "Moderate"],
       [min |-> 201, max |-> 300, category |-> "Poor"],
       [min |-> 301, max |-> 400, category |-> "Very Poor"],
       [min |-> 401, max |-> 500, category |-> "Severe"] >>

\* round(n / d) for n >= 0, d > 0: to the nearest integer, a half to the even one
Round(n, d) ==
    LET q == n \div d
        r == n % d
    IN  IF 2 * r < d THEN q
        ELSE IF 2 * r > d THEN q + 1
        ELSE IF q % 2 = 0 THEN q ELSE q + 1

\* the linear interpolation of one segment
Interpolate(bp, c) ==
    Round(bp.low_aqi * (bp.high_conc - bp.low_conc)
              + (bp.high_aqi - bp.low_aqi) * (c - bp.low_conc),
          bp.high_conc - bp.low_conc)

\* the scan of calculate_sub_index, from segment i on, extrapolating the last
\* segment's line above its high_conc instead of saturating
ScanBreakpoints_extrapolating(breakpoints, i, c) ==
    LET last == breakpoints[Len(breakpoints)]
        hits == {j \in i..Len(breakpoints) :
                    breakpoints[j].low_conc <= c /\ c <= breakpoints[j].high_conc}
    IN  IF hits # {}
        THEN Interpolate(breakpoints[CHOOSE j \in hits : \A k \in hits : j <= k], c)
        ELSE IF c > last.high_conc THEN Interpolate(last, c) ELSE 0

RECURSIVE ScanBreakpoints(_, _, _)
ScanBreakpoints(breakpoints, i, c) ==
    IF i > Len(breakpoints)
    THEN IF c > breakpoints[Len(breakpoints)].high_conc THEN 500 ELSE 0
    ELSE IF breakpoints[i].low_conc <= c /\ c <= breakpoints[i].high_conc
         THEN Interpolate(breakpoints[i], c)
         ELSE ScanBreakpoints(breakpoints, i + 1, c)

\* calculate_sub_index applying the lowest segment's line below its low_conc
calculate_sub_index_below(pollutant, concentration) ==
    IF pollutant \notin DOMAIN BREAKPOINTS
    THEN 0
    ELSE IF concentration < BREAKPOINTS[pollutant][1].low_conc
         THEN Interpolate(BREAKPOINTS[pollutant][1], concentration)
         ELSE ScanBreakpoints(BREAKPOINTS[pollutant], 1, concentration)

\* calculate_sub_index rating a pollutant that has no table by the PM2.5 table
calculate_sub_index_default_table(pollutant, concentration) ==
    IF pollutant \notin DOMAIN BREAKPOINTS
    THEN ScanBreakpoints(BREAKPOINTS.pm25, 1, concentration)
    ELSE ScanBreakpoints(BREAKPOINTS[pollutant], 1, concentration)

calculate_sub_index(pollutant, concentration) ==
    IF pollutant \notin DOMAIN BREAKPOINTS
    THEN 0
    ELSE ScanBreakpoints(BREAKPOINTS[pollutant], 1, concentration)

RECURSIVE ScanCategories(_, _)
ScanCategories(i, aqi_value) ==
    IF i > Len(AQI_CATEGORIES)
    THEN IF aqi_value > 500 THEN AQI_CATEGORIES[Len(AQI_CATEGORIES)] ELSE AQI_CATEGORIES[1]
    ELSE IF AQI_CATEGORIES[i].min <= aqi_value /\ aqi_value <= AQI_CATEGORIES[i].max
         THEN AQI_CATEGORIES[i]
         ELSE ScanCategories(i + 1, aqi_value)

get_category_info(aqi_value) == ScanCategories(1, aqi_value)

\* the loop of calculate_aqi over pollutants.items(), from item i on
RECURSIVE SubIndices(_, _, _)
SubIndices(p, i, sub_indices) ==
    IF i > Len(p.items) THEN sub_indices
    ELSE LET pollutant == p.items[i][1]
             concentration == p.items[i][2]
         IN  IF concentration # None /\ concentration.n >= 0
             THEN SubIndices(p, i + 1,
                      DictPut(sub_indices, pollutant,
                              calculate_sub_index(pollutant, concentration.n)))
             ELSE SubIndices(p, i + 1, sub_indices)

\* the value of the first item instead of the largest
FirstValue(items) == items[1][2]

\* max(values): the largest of a non-empty sequence of <<key, value>> items
MaxValue(items) ==
    CHOOSE m \in {items[i][2] : i \in 1..Len(items)} :
        \A i \in 1..Len(items) : items[i][2] <= m

\* the last key, in iteration order, that has the largest value
MaxKey_last(items) ==
    LET last == CHOOSE i \in 1..Len(items) :
                   /\ items[i][2] = MaxValue(items)
                   /\ \A j \in (i + 1)..Len(items) : items[j][2] # MaxValue(items)
    IN  items[last][1]

\* max(d, key=d.get): the first key, in iteration order, that has the largest value
MaxKey(items) ==
    LET first == CHOOSE i \in 1..Len(items) :
                    /\ items[i][2] = MaxValue(items)
                    /\ \A j \in 1..(i - 1) : items[j][2] # MaxValue(items)
    IN  items[first][1]

calculate_aqi(p) ==
    LET sub_indices == SubIndices(p, 1, Dict(<<>>))
        aqi_value == IF Truthy(sub_indices) THEN MaxValue(sub_indices.items) ELSE 0
        dominant_pollutant ==
            IF Truthy(sub_indices) THEN Str(MaxKey(sub_indices.items)) ELSE None
    IN  [aqi |-> aqi_value,
         category |-> get_category_info(aqi_value).category,
         dominant_pollutant |-> dominant_pollutant,
         sub_indices |-> sub_indices]

-----------------------------------------------------------------------------
(* utils/data_fetcher.py: the TTL cache                                     *)

CACHE_DURATION == 1800

\* the names of the cache entries
OpenaqKey(city) == <<"openaq", city>>
WeatherKey(lat, lng) == <<"weather", lat, lng>>
\* "openaq_all_india", the key of fetch_all_india_aqi
AllIndiaKey == OpenaqKey("all_india")

\* get_cached_data with the comparison `<=`: an entry of age CACHE_DURATION still hits
get_cached_data_inclusive(cache_key) ==
    IF cache[cache_key] # None
    THEN IF now - cache[cache_key].timestamp <= CACHE_DURATION
         THEN cache[cache_key].data
         ELSE None
    ELSE None

get_cached_data(cache_key) ==
    IF cache[cache_key] # None
    THEN IF now - cache[cache_key].timestamp < CACHE_DURATION
         THEN cache[cache_key].data
         ELSE None
    ELSE None

\* the value of _cache after set_cache(cache_key, data)
set_cache(cache_key, data) ==
    [cache EXCEPT ![cache_key] = [t |-> "entry", data |-> data, timestamp |-> now]]

-----------------------------------------------------------------------------
(* utils/data_fetcher.py: the multi-station merge                           *)

\* an exception that leaves a function
Raise(exc) == [t |-> "raise", exc |-> exc]

\* str.lower() on the parameter names the measurement source sends
lower(s) ==
    CASE s = "PM25" -> "pm25"
      [] s = "PM10" -> "pm10"
      [] s = "NO2" -> "no2"
      [] OTHER -> s

param_mapping ==
    [pm25 |-> "pm25", pm10 |-> "pm10", no2 |-> "no2", so2 |-> "so2", co |-> "co", o3 |-> "o3"]

\* the dict aggregate_measurements starts from: every pollutant None
NoPollutants == Dict([i \in 1..Len(POLLUTANTS) |-> <<POLLUTANTS[i], None>>])

\* the inner loop body keeping the most recent reading of a pollutant
MergeMeasurement_latest(merged, measurement) ==
    LET param == lower(measurement.parameter)
        value == measurement.value
    IN  IF param \notin DOMAIN param_mapping THEN merged
        ELSE IF value = None THEN merged
        ELSE IF ~IsNum(value) THEN Raise("TypeError")
        ELSE IF value.n >= 0
             THEN DictPut(merged, param_mapping[param], value)
             ELSE merged

\* the inner loop body keeping the first reading of a pollutant
MergeMeasurement_first(merged, measurement) ==
    LET param == lower(measurement.parameter)
        value == measurement.value
    IN  IF param \notin DOMAIN param_mapping THEN merged
        ELSE IF value = None THEN merged
        ELSE IF ~IsNum(value) THEN Raise("TypeError")
        ELSE IF value.n >= 0 /\ DictGet(merged, param_mapping[param]) = None
             THEN DictPut(merged, param_mapping[param], value)
             ELSE merged

\* the inner loop body without the test `value >= 0`
MergeMeasurement_unfiltered(merged, measurement) ==
    LET param == lower(measurement.parameter)
        value == measurement.value
    IN  IF param \notin DOMAIN param_mapping THEN merged
        ELSE IF value = None THEN merged
        ELSE IF ~IsNum(value) THEN Raise("TypeError")
        ELSE IF \/ DictGet(merged, param_mapping[param]) = None
                \/ value.n > DictGet(merged, param_mapping[param]).n
             THEN DictPut(merged, param_mapping[param], value)
             ELSE merged

\* the body of the inner loop for one measurement; `value >= 0` raises
\* TypeError when the value is not a number
MergeMeasurement(merged, measurement) ==
    LET param == lower(measurement.parameter)
        value == measurement.value
    IN  IF param \notin DOMAIN param_mapping THEN merged
        ELSE IF value = None THEN merged
        ELSE IF ~IsNum(value) THEN Raise("TypeError")
        ELSE IF value.n >= 0
                /\ (\/ DictGet(merged, param_mapping[param]) = None
                    \/ value.n > DictGet(merged, param_mapping[param]).n)
             THEN DictPut(merged, param_mapping[param], value)
             ELSE merged

RECURSIVE MergeStation(_, _, _)
MergeStation(merged, measurements, j) ==
    IF merged.t = "raise" \/ j > Len(measurements) THEN merged
    ELSE MergeStation(MergeMeasurement(merged, measurements[j]), measurements, j + 1)

RECURSIVE MergeResults(_, _, _)
MergeResults(merged, results, i) ==
    IF merged.t = "raise" \/ i > Len(results) THEN merged
    ELSE MergeResults(MergeStation(merged, results[i].measurements, 1), results, i + 1)

\* returns the merged pollutant dict, or the exception that escapes
aggregate_measurements(results) == MergeResults(NoPollutants, results, 1)

-----------------------------------------------------------------------------
(* utils/data_fetcher.py: retrieval of the pollutant vector                 *)

\* the merge of lines 180-184 that keeps the vector the city already has
MergeVectors_keep(existing, vector, i) == existing

\* fetch_all_india_aqi lines 180-184: the vector of one more station merged into
\* the vector a city already has, from item i of `vector` on
RECURSIVE MergeVectors(_, _, _)
MergeVectors(existing, vector, i) ==
    IF i > Len(vector.items) THEN existing
    ELSE LET key == vector.items[i][1]
             val == vector.items[i][2]
         IN  IF val # None /\ (DictGet(existing, key) = None \/ val.n > DictGet(existing, key).n)
             THEN MergeVectors(DictPut(existing, key, val), vector, i + 1)
             ELSE MergeVectors(existing, vector, i + 1)

\* city.lower().strip() on the city names the model's stations carry
lower_strip(s) ==
    CASE s = "Delhi" -> "delhi"
      [] s = " delhi " -> "delhi"
      [] s = "Mumbai" -> "mumbai"
      [] OTHER -> s

\* fetch_all_india_aqi lines 163-186: the loop over the results from result i on;
\* returns city_map, or the exception that escapes aggregate_measurements
RECURSIVE MergeCities(_, _, _)
MergeCities(city_map, results, i) ==
    IF city_map.t = "raise" \/ i > Len(results) THEN city_map
    ELSE LET city == results[i].city
             city_key == lower_strip(city)
             vector == aggregate_measurements(<<results[i]>>)
         IN  IF city = "" THEN MergeCities(city_map, results, i + 1)
             ELSE IF vector.t = "raise" THEN vector
             ELSE IF city_key \in Keys(city_map)
                  THEN MergeCities(
                           DictPut(city_map, city_key,
                                   MergeVectors(DictGet(city_map, city_key), vector, 1)),
                           results, i + 1)
                  ELSE MergeCities(DictPut(city_map, city_key, vector), results, i + 1)

\* what requests.get can do
Timeout == [kind |-> "Timeout"]
ConnectionError == [kind |-> "RequestException"]
Response(status_code, body) == [kind |-> "response", status_code |-> status_code, body |-> body]

\* lines 51-54: the value served from the cache, None when the live source is to be asked
fetch_aqi_cached(city) ==
    IF Truthy(get_cached_data(OpenaqKey(city)))
    THEN get_cached_data(OpenaqKey(city))
    ELSE None

\* set_cache under one key for every city
store_pollutants_one_key(city, vector) == set_cache(OpenaqKey("Delhi"), vector)

\* set_cache(cache_key, pollutants) of line 84
store_pollutants(city, vector) == set_cache(OpenaqKey(city), vector)

\* fetch_aqi_live that remembers a failure: it stores the empty vector when the
\* source fails or has no results
fetch_aqi_live_negative(city, resp) ==
    IF resp.kind # "response" \/ resp.status_code # 200 \/ Len(resp.body.results) = 0
    THEN [returns |-> None, cache |-> store_pollutants(city, NoPollutants)]
    ELSE LET vector == aggregate_measurements(resp.body.results)
         IN  IF vector.t = "raise"
             THEN [returns |-> vector, cache |-> cache]
             ELSE [returns |-> vector, cache |-> store_pollutants(city, vector)]

\* fetch_aqi_live that drops the entry of the key when the fetch does not succeed
fetch_aqi_live_evicting(city, resp) ==
    IF resp.kind # "response" \/ resp.status_code # 200 \/ Len(resp.body.results) = 0
    THEN [returns |-> None, cache |-> [cache EXCEPT ![OpenaqKey(city)] = None]]
    ELSE LET vector == aggregate_measurements(resp.body.results)
         IN  IF vector.t = "raise"
             THEN [returns |-> vector, cache |-> cache]
             ELSE [returns |-> vector, cache |-> store_pollutants(city, vector)]

\* lines 56-93, given what requests.get did: the value returned (or the exception
\* that escapes) and the cache it leaves
fetch_aqi_live(city, resp) ==
    IF resp.kind # "response" THEN [returns |-> None, cache |-> cache]
    ELSE IF resp.status_code # 200 THEN [returns |-> None, cache |-> cache]
    ELSE IF Len(resp.body.results) = 0 THEN [returns |-> None, cache |-> cache]
    ELSE LET vector == aggregate_measurements(resp.body.results)
         IN  IF vector.t = "raise"
             THEN [returns |-> vector, cache |-> cache]
             ELSE [returns |-> vector, cache |-> store_pollutants(city, vector)]

-----------------------------------------------------------------------------
(* utils/data_fetcher.py: weather                                           *)

\* get_demo_weather: every value is drawn from random.Random(seed), the seed being
\* the wall-clock hour; the dict is represented by the seed that determines it
get_demo_weather ==
    Dict(<< <<"icon", Str("01d")>>, <<"rng_seed", Num(now \div 3600)>> >>)

\* lines 254-260: the value returned without a request, None when the live source
\* is to be asked
fetch_weather_cached(lat, lng) ==
    IF Truthy(get_cached_data(WeatherKey(lat, lng)))
    THEN get_cached_data(WeatherKey(lat, lng))
    ELSE IF WEATHER_API_KEY = "" THEN get_demo_weather
    ELSE None

\* lines 275-284: the weather dict built from the response body; round(None) raises
\* TypeError, [][0] raises IndexError
parse_weather(data) ==
    IF ~IsNum(data.temp) THEN Raise("TypeError")
    ELSE IF Len(data.weather) = 0 THEN Raise("IndexError")
    ELSE Dict(<< <<"temperature", Num(Round(data.temp.n, 100))>>,
                 <<"icon", Str(data.weather[1])>> >>)

\* lines 262-293, given what requests.get did
fetch_weather_live(lat, lng, resp) ==
    IF resp.kind # "response" THEN [returns |-> get_demo_weather, cache |-> cache]
    ELSE IF resp.status_code # 200 THEN [returns |-> get_demo_weather, cache |-> cache]
    ELSE LET weather == parse_weather(resp.body)
         IN  IF weather.t = "raise"
             THEN [returns |-> weather, cache |-> cache]
             ELSE [returns |-> weather, cache |-> set_cache(WeatherKey(lat, lng), weather)]

-----------------------------------------------------------------------------
(* utils/data_fetcher.py: the demo synthesizer                              *)

\* the resolution of the modelled random source: random() is u / RandDen, u in 0..RandDen
RandDen == 2
Draws == 0..RandDen

\* (pm25_min, pm25_max) of city_profiles, the default profile for any other city
city_profile(city) ==
    CASE city = "Delhi" -> [pm25_min |-> 100, pm25_max |-> 220]
      [] city = "Mumbai" -> [pm25_min |-> 61, pm25_max |-> 88]
      [] OTHER -> [pm25_min |-> 55, pm25_max |-> 82]

\* random.uniform(a, b) for the draw u, a and b in hundredths
uniform(a, b, u) == a + ((b - a) * u) \div RandDen

\* the multiplier, in tenths, selected by the PM2.5 magnitude
demo_multiplier(pm25) ==
    IF pm25 <= 3000 THEN 3
    ELSE IF pm25 <= 6000 THEN 6
    ELSE IF pm25 <= 9000 THEN 10
    ELSE IF pm25 <= 12000 THEN 14
    ELSE 18

\* round(x, 1) of a value in hundredths
Round1(x) == 10 * Round(x, 10)

\* get_demo_aqi_data(city) when the six calls of random.uniform draw u[1]..u[6]
get_demo_aqi_data(city, u) ==
    LET pm25 == uniform(100 * city_profile(city).pm25_min,
                        100 * city_profile(city).pm25_max, u[1])
        multiplier == demo_multiplier(pm25)
        pm10 == (pm25 * uniform(150, 220, u[2])) \div 100
    IN  Dict(<< <<"pm25", Num(Round1(pm25))>>,
                <<"pm10", Num(Round1(pm10))>>,
                <<"no2", Num(Round1((uniform(1200, 6000, u[3]) * multiplier) \div 10))>>,
                <<"so2", Num(Round1((uniform(600, 3500, u[4]) * multiplier) \div 10))>>,
                <<"co", Num(Round(uniform(20, 200, u[5]) * multiplier, 10))>>,
                <<"o3", Num(Round1((uniform(2000, 8000, u[6]) * multiplier) \div 10))>> >>)

-----------------------------------------------------------------------------
(* app.py: the catalog and find_city                                        *)

Delhi == [name |-> "Delhi", slug |-> "delhi-aqi", state |-> "Delhi",
          lat |-> Num(2861), lng |-> Num(7721), t |-> "dict"]
\* an entry of the catalog that carries no coordinates
Mumbai == [name |-> "Mumbai", slug |-> "mumbai-aqi", state |-> "Maharashtra",
           lat |-> None, lng |-> None, t |-> "dict"]

ALL_CITIES == <<Delhi, Mumbai>>

\* str.lower(), str.replace(' ', '-') and f"{slug}-aqi" on the identifiers of the model
id_lower(s) ==
    CASE s = "Delhi" -> "delhi"
      [] s = "Mumbai" -> "mumbai"
      [] s = "Delhi AQI" -> "delhi aqi"
      [] OTHER -> s

id_slug(s) ==
    CASE s = "delhi aqi" -> "delhi-aqi"
      [] OTHER -> s

id_slug_aqi(s) ==
    CASE s = "delhi" -> "delhi-aqi"
      [] s = "mumbai" -> "mumbai-aqi"
      [] s = "atlantis" -> "atlantis-aqi"
      [] s = "delhi-aqi" -> "delhi-aqi-aqi"
      [] s = "mumbai-aqi" -> "mumbai-aqi-aqi"
      [] OTHER -> "other-aqi"

\* CITY_INDEX: every city under its slug and under its lower-cased name
CITY_INDEX ==
    [k \in {ALL_CITIES[i].slug : i \in 1..Len(ALL_CITIES)}
            \cup {id_lower(ALL_CITIES[i].name) : i \in 1..Len(ALL_CITIES)} |->
        CHOOSE c \in {ALL_CITIES[i] : i \in 1..Len(ALL_CITIES)} :
            c.slug = k \/ id_lower(c.name) = k]

find_city(slug_or_name) ==
    IF slug_or_name \in DOMAIN CITY_INDEX THEN CITY_INDEX[slug_or_name]
    ELSE IF id_lower(slug_or_name) \in DOMAIN CITY_INDEX
         THEN CITY_INDEX[id_lower(slug_or_name)]
    ELSE IF id_slug(id_lower(slug_or_name)) \in DOMAIN CITY_INDEX
         THEN CITY_INDEX[id_slug(id_lower(slug_or_name))]
    ELSE IF id_slug_aqi(id_slug(id_lower(slug_or_name))) \in DOMAIN CITY_INDEX
         THEN CITY_INDEX[id_slug_aqi(id_slug(id_lower(slug_or_name)))]
    ELSE None

-----------------------------------------------------------------------------
(* utils/data_fetcher.py: get_city_data                                     *)

\* use_demo without the test for a vector of None values
use_demo_none_only(f) == f = None

\* line 592: the condition under which the demo synthesizer replaces the fetched value
use_demo(f) == f = None \/ AllNone(f)

\* lines 592-596: the pollutant dict the report is built on, and its provenance
select_pollutants(f, demo) ==
    IF use_demo(f)
    THEN [pollutants |-> demo, data_source |-> "demo"]
    ELSE [pollutants |-> f, data_source |-> "openaq"]

\* the four recommended actions with thresholds that include the bound
solutions_inclusive(aqi) ==
    << [name |-> "Air Purifier", status |-> IF aqi >= 100 THEN "must" ELSE "optional"],
       [name |-> "Car Filter",   status |-> IF aqi >= 150 THEN "must" ELSE "optional"],
       [name |-> "N95 Mask",     status |-> IF aqi >= 200 THEN "must" ELSE "optional"],
       [name |-> "Stay Indoor",  status |-> IF aqi >= 250 THEN "must" ELSE "optional"] >>

\* lines 609-634: the four recommended actions
solutions(aqi) ==
    << [name |-> "Air Purifier", status |-> IF aqi > 100 THEN "must" ELSE "optional"],
       [name |-> "Car Filter",   status |-> IF aqi > 150 THEN "must" ELSE "optional"],
       [name |-> "N95 Mask",     status |-> IF aqi > 200 THEN "must" ELSE "optional"],
       [name |-> "Stay Indoor",  status |-> IF aqi > 250 THEN "must" ELSE "optional"] >>

\* the display rows with every sub_index read under a key sub_indices does not have
RECURSIVE pollutants_display_unrated(_, _, _)
pollutants_display_unrated(p, aqi_result, i) ==
    IF i > Len(p.items) THEN <<>>
    ELSE IF p.items[i][2] # None
         THEN << [key |-> p.items[i][1], value |-> p.items[i][2], sub_index |-> 0] >>
              \o pollutants_display_unrated(p, aqi_result, i + 1)
         ELSE pollutants_display_unrated(p, aqi_result, i + 1)

\* lines 641-652: one display row for every pollutant that has a value
RECURSIVE pollutants_display(_, _, _)
pollutants_display(p, aqi_result, i) ==
    IF i > Len(p.items) THEN <<>>
    ELSE IF p.items[i][2] # None
         THEN << [key |-> p.items[i][1],
                  value |-> p.items[i][2],
                  sub_index |-> IF p.items[i][1] \in Keys(aqi_result.sub_indices)
                                THEN DictGet(aqi_result.sub_indices, p.items[i][1])
                                ELSE 0] >>
              \o pollutants_display(p, aqi_result, i + 1)
         ELSE pollutants_display(p, aqi_result, i + 1)

\* round(pm25_val / 22, 1), in tenths of a cigarette
cigarettes_per_day(p) ==
    IF Truthy(DictGet(p, "pm25")) THEN Round(DictGet(p, "pm25").n, 220) ELSE 0

\* lines 598-678: the report.  The historical series and the health texts, which
\* no external call and no cache entry feeds, are not part of the record.
city_report(info, p, source, weather) ==
    LET aqi_result == calculate_aqi(p)
    IN  [t |-> "dict",
         city |-> info.name,
         state |-> info.state,
         aqi |-> aqi_result.aqi,
         category |-> aqi_result.category,
         dominant_pollutant |-> aqi_result.dominant_pollutant,
         pollutants |-> pollutants_display(p, aqi_result, 1),
         weather |-> weather,
         cigarettes_per_day |-> cigarettes_per_day(p),
         solutions |-> solutions(aqi_result.aqi),
         data_source |-> source]

-----------------------------------------------------------------------------
(* The environment: requests, responses, the clock                          *)

Requests == {1, 2}
EntryPoints == {"api_aqi", "render_city_page"}
Identifiers == {"delhi-aqi", "Mumbai", "atlantis"}
\* the identifier concurrent requests ask for
HotIdentifiers == {"delhi-aqi"}

\* the clock advances MaxTicks times by TickStep seconds
TickStep == 900
MaxTicks == 4

Measurement(parameter, value) == [parameter |-> parameter, value |-> value]
Station(city, measurements) == [city |-> city, measurements |-> measurements]

\* bodies of the pollutant source: no station, a station without measurements,
\* two stations with readings, a reading whose value is a string
BodyNoResults == [results |-> <<>>]
BodyNoMeasurements == [results |-> << Station("Delhi", <<>>) >>]
BodyReadings ==
    [results |-> << Station("Delhi", << Measurement("pm25", Num(4000)),
                                        Measurement("no2", Num(-100)) >>),
                    Station("Delhi", << Measurement("PM25", Num(8500)),
                                        Measurement("pm10", None),
                                        Measurement("nh3", Num(900)) >>) >>]
BodyStringValue ==
    [results |-> << Station("Delhi", << Measurement("pm25", Str("12")) >>) >>]

OpenaqOutcomes ==
    {Timeout, ConnectionError, Response(500, BodyNoResults)}
        \cup {Response(200, b) : b \in {BodyNoResults, BodyNoMeasurements,
                                        BodyReadings, BodyStringValue}}

\* bodies of the weather source: current conditions, an empty "weather" list
BodyWeather == [temp |-> Num(3120), weather |-> <<"50d">>]
BodyWeatherEmpty == [temp |-> Num(3120), weather |-> <<>>]

WeatherOutcomes ==
    {Timeout, ConnectionError, Response(401, BodyWeather),
     Response(200, BodyWeather), Response(200, BodyWeatherEmpty)}

\* the draws of one call of the demo synthesizer within get_city_data: all six
\* at the low end or all six at the high end of their ranges
ReportDraws == {[i \in 1..6 |-> u] : u \in {0, RandDen}}

CacheKeys ==
    {AllIndiaKey}
        \cup {OpenaqKey(ALL_CITIES[i].name) : i \in 1..Len(ALL_CITIES)}
        \cup {WeatherKey(ALL_CITIES[i].lat, ALL_CITIES[i].lng) :
                  i \in {j \in 1..Len(ALL_CITIES) :
                            Truthy(ALL_CITIES[j].lat) /\ Truthy(ALL_CITIES[j].lng)}}

-----------------------------------------------------------------------------
(* The state machine.  A request thread runs one entry point; its steps are  *)
(* separated where it waits for an external source, so that threads          *)
(* interleave between a cache lookup and the store that follows the answer.  *)

Init ==
    /\ now = 0
    /\ WEATHER_API_KEY \in {"", "key"}
    /\ cache = [k \in CacheKeys |-> None]
    /\ pc = [r \in Requests |-> "idle"]
    /\ entry = [r \in Requests |-> ""]
    /\ slug = [r \in Requests |-> ""]
    /\ city_info = [r \in Requests |-> None]
    /\ fetched = [r \in Requests |-> None]
    /\ pollutants = [r \in Requests |-> None]
    /\ data_source = [r \in Requests |-> ""]
    /\ result = [r \in Requests |-> None]
    /\ calc_in = None
    /\ calc_out = None
    /\ demo_calls = <<>>

\* get_city_data(info) up to the first wait: line 589, fetch_aqi_from_openaq's
\* cache lookup
BeginCityData(r, info) ==
    /\ city_info' = [city_info EXCEPT ![r] = info]
    /\ IF fetch_aqi_cached(info.name) # None
       THEN /\ fetched' = [fetched EXCEPT ![r] = fetch_aqi_cached(info.name)]
            /\ pc' = [pc EXCEPT ![r] = "aqi_done"]
       ELSE /\ pc' = [pc EXCEPT ![r] = "aqi_wait"]
            /\ UNCHANGED fetched
    /\ UNCHANGED <<result, pollutants, data_source>>

\* api_aqi falling back to the default city as render_city_page does
NotFoundDefault(r) ==
    BeginCityData(r, find_city("delhi-aqi"))

\* the response for an identifier that is not in the catalog
NotFound(r) ==
    /\ pc' = [pc EXCEPT ![r] = "returned"]
    /\ result' = [result EXCEPT ![r] = [status |-> 404, report |-> None]]
    /\ UNCHANGED <<city_info, fetched, pollutants, data_source>>

\* GET /api/aqi/<city_slug>
api_aqi(r, city_slug) ==
    /\ pc[r] = "idle"
    /\ entry' = [entry EXCEPT ![r] = "api_aqi"]
    /\ slug' = [slug EXCEPT ![r] = city_slug]
    /\ IF find_city(city_slug) = None
       THEN NotFound(r)
       ELSE BeginCityData(r, find_city(city_slug))
    /\ UNCHANGED <<now, WEATHER_API_KEY, cache, calcVars>>

\* GET /in/<city_slug>, /in/<state_slug>/<city_slug> and /
render_city_page(r, city_slug) ==
    /\ pc[r] = "idle"
    /\ entry' = [entry EXCEPT ![r] = "render_city_page"]
    /\ slug' = [slug EXCEPT ![r] = city_slug]
    /\ IF find_city(city_slug) = None
       THEN BeginCityData(r, find_city("delhi-aqi"))
       ELSE BeginCityData(r, find_city(city_slug))
    /\ UNCHANGED <<now, WEATHER_API_KEY, cache, calcVars>>

\* an exception leaves get_city_data and the entry point
Raised(r, exc) ==
    /\ pc' = [pc EXCEPT ![r] = "raised"]
    /\ result' = [result EXCEPT ![r] = [status |-> 500, report |-> exc]]

\* get_city_data returns; the entry point hands the report on
Returned(r, p, source, weather) ==
    /\ pc' = [pc EXCEPT ![r] = "returned"]
    /\ pollutants' = [pollutants EXCEPT ![r] = p]
    /\ data_source' = [data_source EXCEPT ![r] = source]
    /\ result' = [result EXCEPT ![r] =
                     [status |-> 200, report |-> city_report(city_info[r], p, source, weather)]]

\* the pollutant source answers, times out or fails: the rest of fetch_aqi_from_openaq
AqiRespond(r, resp) ==
    /\ pc[r] = "aqi_wait"
    /\ LET out == fetch_aqi_live(city_info[r].name, resp)
       IN  IF out.returns.t = "raise"
           THEN /\ Raised(r, out.returns)
                /\ UNCHANGED <<cache, fetched>>
           ELSE /\ fetched' = [fetched EXCEPT ![r] = out.returns]
                /\ cache' = out.cache
                /\ pc' = [pc EXCEPT ![r] = "aqi_done"]
                /\ UNCHANGED result
    /\ UNCHANGED <<now, WEATHER_API_KEY, entry, slug, city_info, pollutants, data_source, calcVars>>

\* get_city_data lines 591-638: demo substitution, index, derived metrics and
\* fetch_weather's lookup; u are the draws of the demo synthesizer
SelectAndLookUpWeather(r, u) ==
    /\ pc[r] = "aqi_done"
    /\ LET sel == select_pollutants(fetched[r], get_demo_aqi_data(city_info[r].name, u))
           lat == city_info[r].lat
           lng == city_info[r].lng
       IN  IF Truthy(lat) /\ Truthy(lng)
           THEN IF fetch_weather_cached(lat, lng) # None
                THEN Returned(r, sel.pollutants, sel.data_source, fetch_weather_cached(lat, lng))
                ELSE /\ pc' = [pc EXCEPT ![r] = "weather_wait"]
                     /\ pollutants' = [pollutants EXCEPT ![r] = sel.pollutants]
                     /\ data_source' = [data_source EXCEPT ![r] = sel.data_source]
                     /\ UNCHANGED result
           ELSE Returned(r, sel.pollutants, sel.data_source, get_demo_weather)
    /\ UNCHANGED <<now, WEATHER_API_KEY, cache, entry, slug, city_info, fetched, calcVars>>

\* the weather source answers, times out or fails: the rest of fetch_weather and
\* of get_city_data
WeatherRespond(r, resp) ==
    /\ pc[r] = "weather_wait"
    /\ LET out == fetch_weather_live(city_info[r].lat, city_info[r].lng, resp)
       IN  IF out.returns.t = "raise"
           THEN /\ Raised(r, out.returns)
                /\ UNCHANGED <<cache, pollutants, data_source>>
           ELSE /\ Returned(r, pollutants[r], data_source[r], out.returns)
                /\ cache' = out.cache
    /\ UNCHANGED <<now, WEATHER_API_KEY, entry, slug, city_info, fetched, calcVars>>

\* the thread is done with the request and takes the next one
Finish(r) ==
    /\ pc[r] \in {"returned", "raised"}
    /\ pc' = [pc EXCEPT ![r] = "idle"]
    /\ entry' = [entry EXCEPT ![r] = ""]
    /\ slug' = [slug EXCEPT ![r] = ""]
    /\ city_info' = [city_info EXCEPT ![r] = None]
    /\ fetched' = [fetched EXCEPT ![r] = None]
    /\ pollutants' = [pollutants EXCEPT ![r] = None]
    /\ data_source' = [data_source EXCEPT ![r] = ""]
    /\ result' = [result EXCEPT ![r] = None]
    /\ UNCHANGED <<now, WEATHER_API_KEY, cache, calcVars>>

\* time passes
Tick ==
    /\ now + TickStep <= MaxTicks * TickStep
    /\ now' = now + TickStep
    /\ UNCHANGED <<WEATHER_API_KEY, cache, reqVars, calcVars>>

\* two threads serve GET /api/aqi/delhi-aqi concurrently
Next ==
    \/ \E r \in Requests, s \in HotIdentifiers : api_aqi(r, s)
    \/ \E r \in Requests, resp \in OpenaqOutcomes : AqiRespond(r, resp)
    \/ \E r \in Requests, u \in ReportDraws : SelectAndLookUpWeather(r, u)
    \/ \E r \in Requests, resp \in WeatherOutcomes : WeatherRespond(r, resp)
    \/ \E r \in Requests : Finish(r)
    \/ Tick

Spec == Init /\ [][Next]_vars

\* one thread serves GET /api/aqi/delhi-aqi, one request after the other
NextSingle ==
    \/ \E s \in HotIdentifiers : api_aqi(1, s)
    \/ \E resp \in OpenaqOutcomes : AqiRespond(1, resp)
    \/ \E u \in ReportDraws : SelectAndLookUpWeather(1, u)
    \/ \E resp \in WeatherOutcomes : WeatherRespond(1, resp)
    \/ Finish(1)
    \/ Tick

\* thread r leaves the position `at` of its request
Leaves(r, at) ==
    /\ pc[r] = at
    /\ pc' \in {[pc EXCEPT ![r] = to] :
                   to \in {"aqi_done", "weather_wait", "returned", "raised"} \ {at}}

\* Every external call answers or times out (requests.get carries timeout=3, lines
\* 76 and 271), and a thread that holds the fetched value runs on to the weather
\* lookup.  Each position is left by exactly one action of NextSingle, so the
\* three conditions are weak fairness of AqiRespond, SelectAndLookUpWeather and
\* WeatherRespond.
FairSpec ==
    /\ Init /\ [][NextSingle]_vars
    /\ WF_pc(Leaves(1, "aqi_wait"))
    /\ WF_pc(Leaves(1, "aqi_done"))
    /\ WF_pc(Leaves(1, "weather_wait"))

\* one thread serves both entry points for every identifier, one request after the other
NextSequential ==
    \/ \E s \in Identifiers : api_aqi(1, s)
    \/ \E s \in Identifiers : render_city_page(1, s)
    \/ \E resp \in OpenaqOutcomes : AqiRespond(1, resp)
    \/ \E u \in ReportDraws : SelectAndLookUpWeather(1, u)
    \/ \E resp \in WeatherOutcomes : WeatherRespond(1, resp)
    \/ Finish(1)
    \/ Tick

SpecSequential == Init /\ [][NextSequential]_vars

-----------------------------------------------------------------------------
(* get_city_data on readings that put the index on both sides of a threshold *)

\* PM2.5 readings, in hundredths, rated 100, 101, 150, 151, 200, 201, 220, 250, 251
ThresholdConcentrations == {6000, 6100, 7535, 7565, 9000, 9100, 9657, 10535, 10565}

\* one station reporting PM2.5 only
BodyPm25(c) == [results |-> << Station("Delhi", << Measurement("pm25", Num(c)) >>) >>]

ThresholdOutcomes == {Timeout} \cup {Response(200, BodyPm25(c)) : c \in ThresholdConcentrations}

NextReport ==
    \/ \E s \in HotIdentifiers : api_aqi(1, s)
    \/ \E resp \in ThresholdOutcomes : AqiRespond(1, resp)
    \/ \E u \in ReportDraws : SelectAndLookUpWeather(1, u)
    \/ \E resp \in WeatherOutcomes : WeatherRespond(1, resp)
    \/ Finish(1)
    \/ Tick

SpecReport == Init /\ [][NextReport]_vars

-----------------------------------------------------------------------------
(* calculate_aqi called on its own                                          *)

CalcValues == {None, Num(-100), Num(4500), Num(25000)}

\* every dict over the six pollutants, in the order aggregate_measurements and
\* get_demo_aqi_data build it
CalcInputs ==
    {Dict([i \in 1..Len(POLLUTANTS) |-> <<POLLUTANTS[i], v[i]>>]) :
        v \in [1..Len(POLLUTANTS) -> CalcValues]}

InitCalc ==
    /\ now = 0
    /\ WEATHER_API_KEY = ""
    /\ cache = [k \in CacheKeys |-> None]
    /\ pc = [r \in Requests |-> "idle"]
    /\ entry = [r \in Requests |-> ""]
    /\ slug = [r \in Requests |-> ""]
    /\ city_info = [r \in Requests |-> None]
    /\ fetched = [r \in Requests |-> None]
    /\ pollutants = [r \in Requests |-> None]
    /\ data_source = [r \in Requests |-> ""]
    /\ result = [r \in Requests |-> None]
    /\ calc_in \in CalcInputs
    /\ calc_out = None
    /\ demo_calls = <<>>

Calculate ==
    /\ calc_out = None
    /\ calc_out' = calculate_aqi(calc_in)
    /\ UNCHANGED <<sharedVars, reqVars, calc_in, demo_calls>>

NextCalc == Calculate

SpecCalc == InitCalc /\ [][NextCalc]_vars

-----------------------------------------------------------------------------
(* calculate_sub_index called on its own                                    *)

\* the state before a call of one of the pure functions: nothing cached, no request
InitPure ==
    /\ now = 0
    /\ WEATHER_API_KEY = ""
    /\ cache = [k \in CacheKeys |-> None]
    /\ pc = [r \in Requests |-> "idle"]
    /\ entry = [r \in Requests |-> ""]
    /\ slug = [r \in Requests |-> ""]
    /\ city_info = [r \in Requests |-> None]
    /\ fetched = [r \in Requests |-> None]
    /\ pollutants = [r \in Requests |-> None]
    /\ data_source = [r \in Requests |-> ""]
    /\ result = [r \in Requests |-> None]
    /\ calc_out = None
    /\ demo_calls = <<>>

\* a pollutant identifier that has no breakpoint table
UnknownPollutant == "nh3"

SubPollutants == {POLLUTANTS[i] : i \in 1..Len(POLLUTANTS)} \cup {UnknownPollutant}

\* the low_conc and high_conc of every segment of every table
BandEdges ==
    UNION {UNION {{BREAKPOINTS[q][i].low_conc, BREAKPOINTS[q][i].high_conc} :
                     i \in 1..Len(BREAKPOINTS[q])} :
              q \in DOMAIN BREAKPOINTS}

EdgeMargin == 1

\* concentrations, in hundredths: every value within EdgeMargin of a segment edge
\* (on an edge, inside a segment, between two segments, above the last one,
\* below zero) and one clearly negative value
SubConcentrations ==
    {e + d : e \in BandEdges, d \in (-EdgeMargin)..EdgeMargin} \cup {-100}

InitSub ==
    /\ InitPure
    /\ calc_in \in [pollutant : SubPollutants, concentration : SubConcentrations]

CalculateSub ==
    /\ calc_out = None
    /\ calc_out' = Num(calculate_sub_index(calc_in.pollutant, calc_in.concentration))
    /\ UNCHANGED <<sharedVars, reqVars, calc_in, demo_calls>>

NextSub == CalculateSub

SpecSub == InitSub /\ [][NextSub]_vars

-----------------------------------------------------------------------------
(* calculate_aqi called on dicts whose insertion order varies               *)

\* the keys of the dict: two pollutants with a table and one without
TieKeys == {"pm25", "pm10", "nh3"}

\* concentrations, in hundredths, that give equal sub-indices: 0 for both tables,
\* 30.0 for PM2.5 and 50.0 for PM10, anything for the pollutant without a table
TieValues == {None, Num(-100), Num(0), Num(3000), Num(5000)}

\* every dict over TieKeys, in every insertion order
TieInputs ==
    {Dict([i \in 1..3 |-> <<k[i], v[i]>>]) :
        k \in {o \in [1..3 -> TieKeys] : \A i, j \in 1..3 : o[i] = o[j] => i = j},
        v \in [1..3 -> TieValues]}

InitTie ==
    /\ InitPure
    /\ calc_in \in TieInputs

CalculateTie ==
    /\ calc_out = None
    /\ calc_out' = calculate_aqi(calc_in)
    /\ UNCHANGED <<sharedVars, reqVars, calc_in, demo_calls>>

NextTie == CalculateTie

SpecTie == InitTie /\ [][NextTie]_vars

-----------------------------------------------------------------------------
(* calculate_aqi called on two related pollutant dicts                      *)

\* the six-pollutant dict with the given PM2.5 and PM10 values, the rest None
Vector(pm25, pm10) ==
    Dict([i \in 1..Len(POLLUTANTS) |->
             <<POLLUTANTS[i], IF i = 1 THEN pm25 ELSE IF i = 2 THEN pm10 ELSE None>>])

\* PM2.5 concentrations within EdgeMargin of an edge of a PM2.5 segment
Pm25Concentrations ==
    {e + d : e \in UNION {{BREAKPOINTS.pm25[i].low_conc, BREAKPOINTS.pm25[i].high_conc} :
                             i \in 1..Len(BREAKPOINTS.pm25)},
             d \in (-EdgeMargin)..EdgeMargin}

Pm10Values == {None, Num(4500), Num(25000)}

\* two dicts that differ only in PM2.5, which contributes in both and is larger in
\* the second
RaisedPairs ==
    {[kind |-> "raised", first |-> Vector(Num(c[1]), pm10), second |-> Vector(Num(c[2]), pm10)] :
        c \in {d \in Pm25Concentrations \X Pm25Concentrations : 0 <= d[1] /\ d[1] < d[2]},
        pm10 \in Pm10Values}

\* a dict, and the same dict with one more item whose pollutant has no table
ExtendedPairs ==
    {[kind |-> "extended", first |-> Vector(pm25, pm10),
      second |-> DictPut(Vector(pm25, pm10), UnknownPollutant, Num(c))] :
        pm25 \in {None} \cup {Num(c) : c \in Pm25Concentrations},
        pm10 \in Pm10Values,
        c \in {-100, 0, 4500, 60000}}

InitPair ==
    /\ InitPure
    /\ calc_in \in RaisedPairs \cup ExtendedPairs

CalculatePair ==
    /\ calc_out = None
    /\ calc_out' = [first |-> calculate_aqi(calc_in.first),
                    second |-> calculate_aqi(calc_in.second)]
    /\ UNCHANGED <<sharedVars, reqVars, calc_in, demo_calls>>

NextPair == CalculatePair

SpecPair == InitPair /\ [][NextPair]_vars

-----------------------------------------------------------------------------
(* get_category_info called on its own                                      *)

MaxIndex == 520

InitCategory ==
    /\ InitPure
    /\ calc_in \in 0..MaxIndex

LookUpCategory ==
    /\ calc_out = None
    /\ calc_out' = get_category_info(calc_in)
    /\ UNCHANGED <<sharedVars, reqVars, calc_in, demo_calls>>

NextCategory == LookUpCategory

SpecCategory == InitCategory /\ [][NextCategory]_vars

-----------------------------------------------------------------------------
(* aggregate_measurements called on its own                                 *)

MaxStations == 3

\* what a station reports for a pollutant: nothing, a negative value, 40.0, 60.0, 85.0
ReadingValues == {None, Num(-500), Num(4000), Num(6000), Num(8500)}

\* stations: without measurements, with one reading of PM2.5 or PM10 (the
\* parameter in either case), with a parameter that is not mapped, with two
\* readings of one or of two pollutants
MergeStations ==
    {Station("Delhi", <<>>)}
        \cup {Station("Delhi", <<Measurement(q, v)>>) : q \in {"pm25", "PM10"}, v \in ReadingValues}
        \cup {Station("Delhi", <<Measurement("bc", Num(8500))>>),
              Station("Delhi", <<Measurement("PM25", Num(6000)), Measurement("pm25", Num(4000))>>),
              Station("Delhi", <<Measurement("pm10", Num(8500)), Measurement("pm25", Num(-500))>>)}

MergeInputs == UNION {[1..n -> MergeStations] : n \in 0..MaxStations}

InitMerge ==
    /\ InitPure
    /\ calc_in \in MergeInputs

Merge ==
    /\ calc_out = None
    /\ calc_out' = aggregate_measurements(calc_in)
    /\ UNCHANGED <<sharedVars, reqVars, calc_in, demo_calls>>

NextMerge == Merge

SpecMerge == InitMerge /\ [][NextMerge]_vars

-----------------------------------------------------------------------------
(* get_demo_aqi_data called on its own                                      *)

MaxDemoCalls == 2
DemoCities == {"Delhi", "Mumbai", "Atlantis"}

\* the draws of one call: the PM2.5 draw, and one value for the five draws after it
DemoDraws == {[i \in 1..6 |-> IF i = 1 THEN a ELSE b] : a \in Draws, b \in Draws}

DemoCall(city, u) ==
    /\ Len(demo_calls) < MaxDemoCalls
    /\ demo_calls' = Append(demo_calls,
                            [city |-> city, hour |-> now \div 3600,
                             returns |-> get_demo_aqi_data(city, u)])
    /\ UNCHANGED <<sharedVars, reqVars, calc_in, calc_out>>

NextDemo ==
    \/ \E city \in DemoCities, u \in DemoDraws : DemoCall(city, u)
    \/ Tick

SpecDemo == Init /\ [][NextDemo]_vars

-----------------------------------------------------------------------------
(* utils/data_fetcher.py: get_historical_data, one loop iteration per step  *)

\* the (base_min, base_max) of a city: the highest and the lowest range of the
\* table, and the default of a city the table does not have
city_base_aqi(city) ==
    CASE city = "Ghaziabad" -> [base_min |-> 220, base_max |-> 380]
      [] city = "Leh" -> [base_min |-> 10, base_max |-> 35]
      [] OTHER -> [base_min |-> 60, base_max |-> 150]

\* time_factor, in hundredths
time_factor(hour) ==
    IF (7 <= hour /\ hour <= 10) \/ (17 <= hour /\ hour <= 21) THEN 115
    ELSE IF 2 <= hour /\ hour <= 5 THEN 85
    ELSE 100

\* the integers v of -10..420 for which the double product v * 1.15 lies just below
\* the exact product, an integer: int() of it is one less
RushShortfall == {100, 180, 200, 220, 340, 360, 380, 400, 420}

\* max(lo, min(hi, x)) without the lower limit
Clamp_unbounded_below(lo, hi, x) == IF x > hi THEN hi ELSE x

\* max(lo, min(hi, x))
Clamp(lo, hi, x) == IF x > hi THEN hi ELSE IF x < lo THEN lo ELSE x

\* int(max(10, min(500, v * time_factor))), the product in hundredths
hourly_aqi(v, factor) ==
    LET exact == Clamp(1000, 50000, v * factor)
    IN  IF factor = 115 /\ v \in RushShortfall /\ exact = v * factor
        THEN (exact - 1) \div 100
        ELSE exact \div 100

MaxHours == 2

\* hours of the day at which the function is called: every side of every limit of
\* time_factor lies within MaxHours before one of them
CallHours == {3, 6, 8, 11, 18, 22}

\* random.randint(-20, 20) and random.randint(-8, 8): the ends, zero and its neighbours
Variations == {-20, -1, 0, 1, 20}
Drifts == {-8, -1, 0, 1, 8}

InitHistory ==
    /\ InitPure
    /\ calc_in \in [city : {"Ghaziabad", "Leh", "Elsewhere"},
                    hours : 1..MaxHours,
                    hour : CallHours]

\* lines 517-545: the range of the city and the first base value, r of the way
\* from base_min to base_max
BeginHistory(r) ==
    /\ calc_out = None
    /\ LET range == city_base_aqi(calc_in.city)
       IN  calc_out' = [t |-> "history",
                        base_min |-> range.base_min,
                        base_max |-> range.base_max,
                        base_aqi |-> range.base_min
                                       + (r * (range.base_max - range.base_min)) \div 2,
                        i |-> calc_in.hours,
                        data |-> <<>>]
    /\ UNCHANGED <<sharedVars, reqVars, calc_in, demo_calls>>

\* lines 547-569: one iteration of the loop
HistoryHour(variation, drift) ==
    /\ calc_out # None
    /\ calc_out.i > 0
    /\ LET hour == (calc_in.hour - calc_out.i) % 24
           aqi == hourly_aqi(calc_out.base_aqi + variation, time_factor(hour))
       IN  calc_out' = [calc_out EXCEPT
                           !.data = Append(@, aqi),
                           !.base_aqi = Clamp(calc_out.base_min, calc_out.base_max, @ + drift),
                           !.i = @ - 1]
    /\ UNCHANGED <<sharedVars, reqVars, calc_in, demo_calls>>

NextHistory ==
    \/ \E r \in 0..2 : BeginHistory(r)
    \/ \E variation \in Variations, drift \in Drifts : HistoryHour(variation, drift)

SpecHistory == InitHistory /\ [][NextHistory]_vars

-----------------------------------------------------------------------------
(* utils/data_fetcher.py: fetch_all_india_aqi called again and again         *)

MaxResults == 2

\* the stations of a bulk answer: of Delhi under two spellings, of Mumbai, without
\* a city; without measurements, with one reading, with two
BulkStations ==
    {Station(city, measurements) :
        city \in {"Delhi", " delhi ", "Mumbai", ""},
        measurements \in {<<>>,
                          <<Measurement("pm25", Num(4000))>>,
                          <<Measurement("pm25", Num(8500)), Measurement("PM10", Num(6000))>>}}

\* calc_in is the body the source answers with when it answers 200
InitBulk ==
    /\ InitPure
    /\ calc_in \in {[results |-> results] :
                       results \in UNION {[1..n -> BulkStations] : n \in 0..MaxResults}}

\* one call of fetch_all_india_aqi, lines 139-194, given what requests.get does if
\* it is called; calc_out holds what the call returns and whether it asked the source
fetch_all_india_aqi(resp) ==
    /\ calc_out = None
    /\ IF Truthy(get_cached_data(AllIndiaKey))
       THEN /\ calc_out' = [returns |-> get_cached_data(AllIndiaKey), requested |-> FALSE]
            /\ UNCHANGED cache
       ELSE IF resp.kind # "response" \/ resp.status_code # 200
       THEN /\ calc_out' = [returns |-> Dict(<<>>), requested |-> TRUE]
            /\ UNCHANGED cache
       ELSE LET city_map == MergeCities(Dict(<<>>), resp.body.results, 1)
            IN  /\ calc_out' = [returns |-> city_map, requested |-> TRUE]
                /\ cache' = IF city_map.t = "raise" THEN cache
                            ELSE set_cache(AllIndiaKey, city_map)
    /\ UNCHANGED <<now, WEATHER_API_KEY, reqVars, calc_in, demo_calls>>

\* the caller has taken the returned value
BulkReturn ==
    /\ calc_out # None
    /\ calc_out' = None
    /\ UNCHANGED <<sharedVars, reqVars, calc_in, demo_calls>>

NextBulk ==
    \/ \E resp \in {Timeout, ConnectionError, Response(500, calc_in), Response(200, calc_in)} :
          fetch_all_india_aqi(resp)
    \/ BulkReturn
    \/ Tick

SpecBulk == InitBulk /\ [][NextBulk]_vars

-----------------------------------------------------------------------------
(* Properties                                                               *)

Delhi_openaq == OpenaqKey("Delhi")
Delhi_weather == WeatherKey(Delhi.lat, Delhi.lng)

\* C1: get_city_data never fails outward: whatever the sources do, no request ends
\* with an exception leaving get_city_data.
C1_NeverFailsOutward ==
    \A r \in Requests : pc[r] # "raised"

\* a step in which thread r's live pollutant fetch fails (fetch_aqi_from_openaq
\* returns None)
AqiFetchFailed(r) ==
    pc[r] = "aqi_wait" /\ pc'[r] = "aqi_done" /\ fetched'[r] = None

\* a step in which thread r's live weather fetch fails (fetch_weather falls back
\* to the demo weather)
WeatherFetchFailed(r) ==
    /\ pc[r] = "weather_wait" /\ pc'[r] = "returned"
    /\ result'[r].report.weather = get_demo_weather

\* C2: no negative caching.  A failed live fetch leaves the cache unchanged; the
\* cache changes only by the store of a successful fetch, which holds the value
\* that fetch returns; and a call that finds no usable entry asks the live source.
C2_NoNegativeCaching ==
    [][\A r \in Requests :
          /\ AqiFetchFailed(r) => cache' = cache
          /\ WeatherFetchFailed(r) => cache' = cache
          /\ (pc'[r] # pc[r] /\ cache' # cache) =>
                \/ /\ pc[r] = "aqi_wait"
                   /\ fetched'[r] # None
                   /\ cache' = [cache EXCEPT ![OpenaqKey(city_info[r].name)] =
                                   [t |-> "entry", data |-> fetched'[r], timestamp |-> now]]
                \/ /\ pc[r] = "weather_wait"
                   /\ result'[r].report.weather # get_demo_weather
                   /\ cache' = [cache EXCEPT ![WeatherKey(city_info[r].lat, city_info[r].lng)] =
                                   [t |-> "entry", data |-> result'[r].report.weather,
                                    timestamp |-> now]]
          /\ (/\ pc[r] = "idle" /\ pc'[r] # "idle" /\ city_info'[r] # None
              /\ ~Truthy(get_cached_data(OpenaqKey(city_info'[r].name))))
                => pc'[r] = "aqi_wait"
          /\ (/\ pc[r] = "aqi_done" /\ pc'[r] # "aqi_done" /\ WEATHER_API_KEY # ""
              /\ Truthy(city_info[r].lat) /\ Truthy(city_info[r].lng)
              /\ ~Truthy(get_cached_data(WeatherKey(city_info[r].lat, city_info[r].lng))))
                => pc'[r] = "weather_wait"
      ]_vars

\* a live pollutant fetch has failed while a stale entry of the key is in place
C2_Witness ==
    \E r \in Requests :
        /\ pc[r] = "aqi_done" /\ fetched[r] = None
        /\ cache[Delhi_openaq] # None
        /\ get_cached_data(Delhi_openaq) = None

\* C3: the cache never serves a "no data" signal: no call of fetch_aqi_from_openaq
\* is answered from the cache with a vector whose every field is None.
C3_NeverServesCachedNoData ==
    [][\A r \in Requests :
          (pc[r] = "idle" /\ pc'[r] = "aqi_done") => ~AllNone(fetched'[r])]_vars

\* C4: TTL semantics of get_cached_data: for an entry stored at fetched_at it
\* returns the stored value while now - fetched_at < 1800 and None once
\* now - fetched_at >= 1800, whatever the value; without an entry it returns None.
C4_TTLSemantics ==
    \A k \in CacheKeys :
        IF cache[k] = None
        THEN get_cached_data(k) = None
        ELSE /\ cache[k].data # None
             /\ now - cache[k].timestamp < 1800 => get_cached_data(k) = cache[k].data
             /\ now - cache[k].timestamp >= 1800 => get_cached_data(k) = None

\* one entry exactly at the end of its window misses while a younger one hits
C4_Witness ==
    /\ cache[Delhi_openaq] # None /\ cache[Delhi_weather] # None
    /\ now - cache[Delhi_openaq].timestamp = CACHE_DURATION
    /\ get_cached_data(Delhi_openaq) = None
    /\ now - cache[Delhi_weather].timestamp \in 1..(CACHE_DURATION - 1)
    /\ get_cached_data(Delhi_weather) = cache[Delhi_weather].data

\* the <<key, value>> items of a pollutant dict that have a value
Present(p) == {p.items[i] : i \in {j \in 1..Len(p.items) : p.items[j][2] # None}}

\* the <<key, value>> pairs a report displays
Displayed(report) ==
    {<<report.pollutants[i].key, report.pollutants[i].value>> :
        i \in 1..Len(report.pollutants)}

\* C5: provenance tagging.  A returned report is tagged "demo" exactly when the
\* fetched vector is absent or has every field None, and then its pollutant values
\* are those of a demo vector of the city; otherwise it is tagged "openaq" and its
\* pollutant values are the fetched ones.
C5_Provenance ==
    \A r \in Requests :
        (pc[r] = "returned" /\ result[r].status = 200) =>
            LET report == result[r].report
                nodata == \/ fetched[r] = None
                          \/ \A i \in 1..Len(fetched[r].items) : fetched[r].items[i][2] = None
            IN  /\ report.data_source \in {"demo", "openaq"}
                /\ report.data_source = "demo" <=> nodata
                /\ report.data_source = "demo" =>
                      \E u \in ReportDraws :
                          Displayed(report) = Present(get_demo_aqi_data(report.city, u))
                /\ report.data_source = "openaq" =>
                      Displayed(report) = Present(fetched[r])

\* a report built on demo data because the fetched vector held no value
C5_Witness ==
    \E r \in Requests :
        /\ pc[r] = "returned" /\ result[r].status = 200
        /\ fetched[r] # None /\ AllNone(fetched[r])
        /\ result[r].report.data_source = "demo"

\* C6: demo synthesizer determinism: two calls of get_demo_aqi_data for the same
\* city within the same wall-clock hour return identical vectors.
C6_DemoDeterministic ==
    \A i, j \in 1..Len(demo_calls) :
        (demo_calls[i].city = demo_calls[j].city /\ demo_calls[i].hour = demo_calls[j].hour)
            => demo_calls[i].returns = demo_calls[j].returns

\* C7: the TTL check and the overwrite on refetch are serialized per key: an entry
\* is overwritten only in a state in which its lookup misses, so two requests never
\* both fetch and both overwrite the entry.
C7_RefetchSerialized ==
    [][\A k \in CacheKeys :
          cache'[k] # cache[k] => ~Truthy(get_cached_data(k))]_vars

\* C8: no operation blocks indefinitely: provided every external call answers or
\* times out, every invocation of get_city_data eventually returns a report.
C8_EventuallyReturnsReport ==
    \A r \in Requests :
        (pc[r] \in {"aqi_wait", "aqi_done", "weather_wait"})
            ~> (pc[r] = "returned" /\ result[r].status = 200)

\* C9 as claimed: an identifier that does not resolve gets a "not found" outcome
\* from every entry point, and no report is built for it.
C9_NotFoundSurfaced ==
    \A r \in Requests :
        (pc[r] # "idle" /\ find_city(slug[r]) = None) =>
            /\ pc[r] = "returned"
            /\ result[r].status = 404
            /\ city_info[r] = None

\* C9 amended: for an identifier that does not resolve, api_aqi answers 404 and
\* builds no report, and render_city_page serves the default city, Delhi.
C9_NotFoundOrDefault ==
    \A r \in Requests :
        (pc[r] # "idle" /\ find_city(slug[r]) = None) =>
            /\ entry[r] = "api_aqi" =>
                  /\ pc[r] = "returned"
                  /\ result[r] = [status |-> 404, report |-> None]
                  /\ city_info[r] = None
            /\ entry[r] = "render_city_page" =>
                  /\ city_info[r] = Delhi
                  /\ (pc[r] = "returned" => result[r].status = 200
                                            /\ result[r].report.city = "Delhi")

\* the page route has returned Delhi's report for an identifier not in the catalog
C9_Witness ==
    /\ pc[1] = "returned" /\ entry[1] = "render_city_page" /\ slug[1] = "atlantis"
    /\ result[1].status = 200 /\ result[1].report.city = "Delhi"

\* the items of a pollutant dict that contribute: value not None and >= 0
Contributing(p) ==
    {i \in 1..Len(p.items) : p.items[i][2] # None /\ p.items[i][2].n >= 0}

\* C10: calculate_aqi returns the maximum of the sub-indices of the contributing
\* pollutants; a single contributor is the dominant pollutant and its sub-index is
\* the index; without a contributor the index is 0, the dominant pollutant None
\* and the category Good.
C10_MaxOfSubIndices ==
    calc_out # None =>
        LET c == Contributing(calc_in)
            sub(i) == calculate_sub_index(calc_in.items[i][1], calc_in.items[i][2].n)
        IN  /\ c # {} => /\ \E i \in c : calc_out.aqi = sub(i)
                         /\ \A i \in c : calc_out.aqi >= sub(i)
            /\ \A i \in c : c = {i} =>
                  /\ calc_out.aqi = sub(i)
                  /\ calc_out.dominant_pollutant = Str(calc_in.items[i][1])
            /\ c = {} => /\ calc_out.aqi = 0
                         /\ calc_out.dominant_pollutant = None
                         /\ calc_out.category = "Good"

\* two contributors, PM2.5 45.0 and PM10 250.0, the larger sub-index belonging to
\* the second: it is the index, and PM10 the dominant pollutant
C10_Witness ==
    /\ calc_out # None
    /\ Contributing(calc_in) = {1, 2}
    /\ calc_in.items[1] = <<"pm25", Num(4500)>>
    /\ calc_in.items[2] = <<"pm10", Num(25000)>>
    /\ calculate_sub_index("pm10", 25000) > calculate_sub_index("pm25", 4500)
    /\ calc_out.aqi = calculate_sub_index("pm10", 25000)
    /\ calc_out.dominant_pollutant = Str("pm10")

\* the last segment of a recognized pollutant's table
\* C11: calculate_aqi is monotonic: of two dicts that differ only in one
\* contributing pollutant, the one with the larger concentration does not get the
\* smaller overall index.
C11_Monotonic ==
    (calc_out # None /\ calc_in.kind = "raised") =>
        calc_out.second.aqi >= calc_out.first.aqi

LastSegment(pollutant) == BREAKPOINTS[pollutant][Len(BREAKPOINTS[pollutant])]

\* C12: calculate_sub_index returns exactly 500 for every recognized pollutant and
\* every concentration above the high_conc of the pollutant's last segment.
C12_SaturatesAt500 ==
    (/\ calc_out # None
     /\ calc_in.pollutant \in DOMAIN BREAKPOINTS
     /\ calc_in.concentration > LastSegment(calc_in.pollutant).high_conc)
        => calc_out = Num(500)

\* PM2.5 one hundredth above the end of its last segment is rated 500
C12_Witness ==
    /\ calc_in.pollutant = "pm25"
    /\ calc_in.concentration = LastSegment("pm25").high_conc + 1
    /\ calc_out = Num(500)

\* C13: calculate_sub_index returns an integer in 0..500 for every pollutant and
\* every concentration, those below the lowest breakpoint included.
C13_SubIndexInRange ==
    calc_out # None => calc_out.n \in 0..500

\* a negative concentration, below the lowest breakpoint of PM10, is rated 0
C13_Witness ==
    /\ calc_in.pollutant = "pm10"
    /\ calc_in.concentration = -100
    /\ calc_in.concentration < BREAKPOINTS.pm10[1].low_conc
    /\ calc_out = Num(0)

\* C14: a pollutant that is not in the breakpoint table gets the sub-index 0, as a
\* value, for every concentration, and adding it to a dict never changes the
\* overall index calculate_aqi returns.
C14_UnknownPollutantIsZero ==
    (calc_out # None /\ calc_in.kind = "extended") =>
        /\ calculate_sub_index(UnknownPollutant,
                               DictGet(calc_in.second, UnknownPollutant).n) = 0
        /\ DictGet(calc_in.second, UnknownPollutant).n >= 0 =>
              DictGet(calc_out.second.sub_indices, UnknownPollutant) = 0
        /\ calc_out.second.aqi = calc_out.first.aqi

\* the unknown pollutant at 600.0 next to PM10 at 45.0: its sub-index 0 is in the
\* result and the overall index is PM10's
C14_Witness ==
    /\ calc_out # None /\ calc_in.kind = "extended"
    /\ DictGet(calc_in.second, UnknownPollutant) = Num(60000)
    /\ DictGet(calc_in.second, "pm10") = Num(4500)
    /\ DictGet(calc_in.second, "pm25") = None
    /\ DictGet(calc_out.second.sub_indices, UnknownPollutant) = 0
    /\ calc_out.second.aqi = calculate_sub_index("pm10", 4500)
    /\ calc_out.second.aqi > 0

\* the bands of AQI_CATEGORIES that contain an index
BandsOf(aqi_value) ==
    {i \in 1..Len(AQI_CATEGORIES) :
        AQI_CATEGORIES[i].min <= aqi_value /\ aqi_value <= AQI_CATEGORIES[i].max}

\* C15: category lookup is total and unambiguous: an index in 0..500 lies in
\* exactly one of the bands [0,50] Good, [51,100] Satisfactory, [101,200] Moderate,
\* [201,300] Poor, [301,400] Very Poor, [401,500] Severe, and get_category_info
\* returns that band; an index above 500 gets Severe.
C15_CategoryTotalUnambiguous ==
    calc_out # None =>
        /\ calc_in <= 500 =>
              /\ Cardinality(BandsOf(calc_in)) = 1
              /\ \A i \in BandsOf(calc_in) : calc_out = AQI_CATEGORIES[i]
              /\ calc_out.category =
                    IF calc_in <= 50 THEN "Good"
                    ELSE IF calc_in <= 100 THEN "Satisfactory"
                    ELSE IF calc_in <= 200 THEN "Moderate"
                    ELSE IF calc_in <= 300 THEN "Poor"
                    ELSE IF calc_in <= 400 THEN "Very Poor"
                    ELSE "Severe"
        /\ calc_in > 500 => calc_out.category = "Severe"

\* the first index of the Moderate band has been looked up
C15_Witness ==
    /\ calc_in = 101
    /\ calc_out # None
    /\ calc_out.category = "Moderate"
    /\ BandsOf(calc_in) = {3}

\* the readings of a pollutant, over all stations, that are not None and not negative
UsableReadings(results, key) ==
    UNION {{results[i].measurements[j].value.n :
               j \in {k \in 1..Len(results[i].measurements) :
                         /\ lower(results[i].measurements[k].parameter) = key
                         /\ results[i].measurements[k].value # None
                         /\ results[i].measurements[k].value.n >= 0}} :
           i \in 1..Len(results)}

Orders(n) == {f \in [1..n -> 1..n] : \A i, j \in 1..n : f[i] = f[j] => i = j}

\* the vectors of the stations from i on, each aggregated on its own, merged one
\* after the other into `existing`
RECURSIVE MergeEach(_, _, _)
MergeEach(existing, results, i) ==
    IF i > Len(results) THEN existing
    ELSE MergeEach(MergeVectors(existing, aggregate_measurements(<<results[i]>>), 1),
                   results, i + 1)

\* C17: the multi-station merge is order-independent and idempotent: every
\* permutation of the stations gives the same vector, so does merging the vectors
\* of any two consecutive groups of the stations or of the stations one by one,
\* and a station added a second time changes nothing.
C17_MergeOrderIndependent ==
    calc_out # None =>
        LET n == Len(calc_in)
        IN  /\ \A f \in Orders(n) :
                  aggregate_measurements([i \in 1..n |-> calc_in[f[i]]]) = calc_out
            /\ \A k \in 0..n :
                  MergeVectors(aggregate_measurements(SubSeq(calc_in, 1, k)),
                               aggregate_measurements(SubSeq(calc_in, k + 1, n)), 1) = calc_out
            /\ MergeEach(NoPollutants, calc_in, 1) = calc_out
            /\ \A i \in 1..n :
                  aggregate_measurements(Append(calc_in, calc_in[i])) = calc_out
            /\ MergeVectors(calc_out, calc_out, 1) = calc_out

\* three stations whose PM2.5 readings arrive as 85, 40, 60, one of them also
\* reporting PM10: the merge holds 85 and the PM10 reading
C17_Witness ==
    /\ calc_in = << Station("Delhi", <<Measurement("pm25", Num(8500))>>),
                    Station("Delhi", <<Measurement("PM25", Num(6000)), Measurement("pm25", Num(4000))>>),
                    Station("Delhi", <<Measurement("PM10", Num(6000))>>) >>
    /\ calc_out # None
    /\ DictGet(calc_out, "pm25") = Num(8500)
    /\ DictGet(calc_out, "pm10") = Num(6000)

\* the stations without the readings whose value is None or negative
WithoutMalformed(results) ==
    [i \in 1..Len(results) |->
        Station(results[i].city,
                SelectSeq(results[i].measurements,
                          LAMBDA m : m.value # None /\ m.value.n >= 0))]

\* the readings of the input whose value is None or negative
Malformed(results) ==
    UNION {{results[i].measurements[j] :
               j \in {k \in 1..Len(results[i].measurements) :
                         \/ results[i].measurements[k].value = None
                         \/ results[i].measurements[k].value.n < 0}} :
           i \in 1..Len(results)}

\* C18: malformed measurements are filtered silently: a reading whose value is
\* None or negative raises no error and changes nothing in the vector
\* aggregate_measurements returns, and every value of the vector is None or >= 0.
C18_MalformedFiltered ==
    calc_out # None =>
        /\ calc_out.t = "dict"
        /\ \A i \in 1..Len(calc_out.items) :
              calc_out.items[i][2] # None => calc_out.items[i][2].n >= 0
        /\ aggregate_measurements(WithoutMalformed(calc_in)) = calc_out

\* a negative and a None reading next to a usable one have been merged: only the
\* usable one is in the vector
C18_Witness ==
    /\ calc_out # None
    /\ Len(calc_in) = 3
    /\ Measurement("pm25", Num(-500)) \in Malformed(calc_in)
    /\ Measurement("PM10", None) \in Malformed(calc_in)
    /\ UsableReadings(calc_in, "pm25") = {4000}
    /\ DictGet(calc_out, "pm25") = Num(4000)
    /\ DictGet(calc_out, "pm10") = None

\* the status of the recommended action `name` in a report
StatusOf(report, name) ==
    {report.solutions[i].status :
        i \in {j \in 1..Len(report.solutions) : report.solutions[j].name = name}}

\* C19: recommended actions are gated by strict thresholds on the overall index:
\* every report lists Air Purifier, Car Filter, N95 Mask and Stay Indoor, each
\* "must" exactly when the index is above 100, 150, 200 and 250 respectively.
C19_SolutionThresholds ==
    \A r \in Requests :
        (pc[r] = "returned" /\ result[r].status = 200) =>
            LET report == result[r].report
                gate(name, threshold) ==
                    StatusOf(report, name) =
                        {IF report.aqi > threshold THEN "must" ELSE "optional"}
            IN  /\ Len(report.solutions) = 4
                /\ gate("Air Purifier", 100)
                /\ gate("Car Filter", 150)
                /\ gate("N95 Mask", 200)
                /\ gate("Stay Indoor", 250)

\* a report with index 220: Car Filter and N95 Mask are "must", Stay Indoor is not
C19_Witness ==
    /\ pc[1] = "returned" /\ result[1].status = 200
    /\ result[1].report.aqi = 220
    /\ StatusOf(result[1].report, "Car Filter") = {"must"}
    /\ StatusOf(result[1].report, "N95 Mask") = {"must"}
    /\ StatusOf(result[1].report, "Stay Indoor") = {"optional"}

\* C20: configuration absence is handled like an unreachable source: with no
\* weather credential no request waits for the weather source, nothing is stored
\* under a weather key, every report carries synthetic weather, and no call of
\* get_city_data ends without a report.
C20_NoCredentialStillReports ==
    WEATHER_API_KEY = "" =>
        /\ \A k \in CacheKeys : k[1] = "weather" => cache[k] = None
        /\ \A r \in Requests :
              /\ pc[r] # "weather_wait"
              /\ pc[r] # "raised"
              /\ (pc[r] = "returned" /\ result[r].status = 200) =>
                    DictGet(result[r].report.weather, "rng_seed") # None


\* the contributing items of a pollutant dict whose sub-index is the largest
Top(p) ==
    LET sub(i) == calculate_sub_index(p.items[i][1], p.items[i][2].n)
    IN  {i \in Contributing(p) : \A j \in Contributing(p) : sub(j) <= sub(i)}

\* C21: when several contributing pollutants share the largest sub-index,
\* calculate_aqi returns as dominant pollutant the one that comes first in the
\* iteration order of the input dict, and the sub-index recorded for the dominant
\* pollutant always equals the overall index.
C21_FirstSeenWins ==
    (calc_out # None /\ Contributing(calc_in) # {}) =>
        LET first == CHOOSE i \in Top(calc_in) : \A j \in Top(calc_in) : i <= j
        IN  /\ calc_out.dominant_pollutant = Str(calc_in.items[first][1])
            /\ DictGet(calc_out.sub_indices, calc_out.dominant_pollutant.s) = calc_out.aqi

\* PM10 50.0 inserted before PM2.5 30.0, both rated 50, after a pollutant without
\* a table: PM10 is the dominant pollutant
C21_Witness ==
    /\ calc_out # None
    /\ calc_in.items = <<<<"nh3", Num(5000)>>, <<"pm10", Num(5000)>>, <<"pm25", Num(3000)>>>>
    /\ Top(calc_in) = {2, 3}
    /\ calc_out.aqi = 50
    /\ calc_out.dominant_pollutant = Str("pm10")

\* request r completes, in this step, a successful fetch that stores under key k
StoresFetched(r, k) ==
    \/ /\ pc[r] = "aqi_wait" /\ pc'[r] = "aqi_done"
       /\ k = OpenaqKey(city_info[r].name)
       /\ fetched'[r] # None
       /\ cache'[k].data = fetched'[r]
    \/ /\ pc[r] = "weather_wait" /\ pc'[r] = "returned"
       /\ k = WeatherKey(city_info[r].lat, city_info[r].lng)
       /\ cache'[k].data = result'[r].report.weather

\* C22: cache entries are never removed: a key that has an entry has one in every
\* later state, whatever fetches, hits, misses and failures follow; the entry,
\* stale or not, keeps its value and fetch time in every step except the step of
\* a successful fetch for that key, which overwrites it with the fetched value
\* and the time of the fetch.
C22_EntriesNeverRemoved ==
    [][\A k \in CacheKeys :
          cache[k] # None =>
              /\ cache'[k] # None
              /\ cache'[k] # cache[k] =>
                    /\ cache'[k].timestamp = now
                    /\ \E r \in Requests : StoresFetched(r, k)]_vars

\* the entry of Delhi is stale, a request has missed it and its fetch has failed:
\* the entry is still there with its old fetch time
C22_Witness ==
    /\ cache[Delhi_openaq] # None
    /\ now - cache[Delhi_openaq].timestamp >= CACHE_DURATION
    /\ \E r \in Requests :
          /\ pc[r] = "aqi_done"
          /\ city_info[r].name = "Delhi"
          /\ fetched[r] = None

\* C23: get_historical_data is a bounded random walk: for every city and every
\* sequence of random steps the base value is within the city's
\* [base_min, base_max] after each step, and every aqi of the series is within
\* [10, 500].
C23_BoundedWalk ==
    calc_out # None =>
        /\ calc_out.base_min <= calc_out.base_aqi
        /\ calc_out.base_aqi <= calc_out.base_max
        /\ \A j \in 1..Len(calc_out.data) :
              10 <= calc_out.data[j] /\ calc_out.data[j] <= 500

\* Leh, two hours before 06:00: both hours emit the floor 10 (base 10, variation
\* -20, factor 0.85) and the drift of -8 is clamped to base_min twice
C23_Witness ==
    /\ calc_out # None
    /\ calc_in = [city |-> "Leh", hours |-> MaxHours, hour |-> 6]
    /\ calc_out.i = 0
    /\ Len(calc_out.data) = MaxHours
    /\ \A j \in 1..Len(calc_out.data) : calc_out.data[j] = 10
    /\ calc_out.base_aqi = calc_out.base_min

\* C24: cache entries are independent and the report is not cached: a step of an
\* invocation of get_city_data for a location changes at most the entries
\* openaq_<city> and weather_<lat>_<lng> of that location, every other entry
\* keeps its value and fetch time, and no entry holds an assembled report.
C24_WritesOwnEntriesOnly ==
    [][\A k \in CacheKeys :
          /\ cache'[k] # cache[k] =>
                \E r \in Requests :
                    /\ pc'[r] # pc[r]
                    /\ city_info[r] # None
                    /\ \/ k = OpenaqKey(city_info[r].name)
                       \/ /\ Truthy(city_info[r].lat) /\ Truthy(city_info[r].lng)
                          /\ k = WeatherKey(city_info[r].lat, city_info[r].lng)
          /\ cache'[k] # None =>
                /\ "items" \in DOMAIN cache'[k].data
                /\ DOMAIN cache'[k].data \cap {"aqi", "pollutants", "weather"} = {}]_vars

\* a report for Mumbai has been returned whose fetch stored Mumbai's vector just
\* now, while both entries of Delhi are still those of an earlier time
C24_Witness ==
    /\ pc[1] = "returned"
    /\ result[1].status = 200
    /\ result[1].report.city = "Mumbai"
    /\ cache[OpenaqKey("Mumbai")] # None
    /\ cache[OpenaqKey("Mumbai")].timestamp = now
    /\ cache[Delhi_openaq] # None
    /\ cache[Delhi_weather] # None
    /\ cache[Delhi_openaq].timestamp < now
    /\ cache[Delhi_weather].timestamp < now

\* C25: cache reuse: once a successful fetch has stored a value under a key, every
\* call for that key made before the TTL elapses returns the stored value and
\* asks no external source, whatever the stored value is.
C25_FreshEntryIsReused ==
    [][(/\ calc_out = None
        /\ calc_out' # None
        /\ cache[AllIndiaKey] # None
        /\ now - cache[AllIndiaKey].timestamp < CACHE_DURATION)
          => /\ calc_out'.requested = FALSE
             /\ calc_out'.returns = cache[AllIndiaKey].data]_vars

\* C26: the bulk merge agrees with the single-location merge: the vector stored
\* for a city key is aggregate_measurements of all results of the answer whose
\* lower-cased, stripped city name is that key, and every such name has a vector.
C26_BulkAgreesWithSingle ==
    cache[AllIndiaKey] # None =>
        LET city_map == cache[AllIndiaKey].data
            results == calc_in.results
            Named(station) == station.city # ""
        IN  /\ Keys(city_map) = {lower_strip(results[i].city) :
                                    i \in {j \in 1..Len(results) : Named(results[j])}}
            /\ \A key \in Keys(city_map) :
                  LET Of(station) == Named(station) /\ lower_strip(station.city) = key
                  IN  DictGet(city_map, key) = aggregate_measurements(SelectSeq(results, Of))

\* Delhi's station with PM2.5 40 and, under another spelling, its station with
\* PM2.5 85 and PM10 60 have been merged under the key delhi
C26_Witness ==
    /\ cache[AllIndiaKey] # None
    /\ calc_in.results =
           << Station(" delhi ", <<Measurement("pm25", Num(4000))>>),
              Station("Delhi", <<Measurement("pm25", Num(8500)), Measurement("PM10", Num(6000))>>) >>
    /\ Keys(cache[AllIndiaKey].data) = {"delhi"}
    /\ DictGet(DictGet(cache[AllIndiaKey].data, "delhi"), "pm25") = Num(8500)
    /\ DictGet(DictGet(cache[AllIndiaKey].data, "delhi"), "pm10") = Num(6000)

\* C27: report consistency: in every report get_city_data returns, aqi is the
\* largest sub_index of the displayed pollutant rows (0 without a row),
\* dominant_pollutant is the key of a displayed row whose sub_index is aqi, and
\* category is the band of AQI_CATEGORIES that contains aqi.
C27_ReportConsistent ==
    \A r \in Requests :
        (result[r] # None /\ result[r].status = 200) =>
            LET report == result[r].report
                rows == report.pollutants
            IN  /\ rows = <<>> => report.aqi = 0
                /\ rows # <<>> =>
                      /\ \A i \in 1..Len(rows) : rows[i].sub_index <= report.aqi
                      /\ report.dominant_pollutant # None
                      /\ \E i \in 1..Len(rows) :
                            /\ rows[i].key = report.dominant_pollutant.s
                            /\ rows[i].sub_index = report.aqi
                /\ BandsOf(report.aqi) # {}
                /\ \A b \in BandsOf(report.aqi) : AQI_CATEGORIES[b].category = report.category

\* a report with six rows has been returned whose first row is rated below the
\* index, whose dominant pollutant is a later row and whose index is in the last band
C27_Witness ==
    \E r \in Requests :
        /\ result[r] # None /\ result[r].status = 200
        /\ Len(result[r].report.pollutants) = Len(POLLUTANTS)
        /\ result[r].report.pollutants[1].sub_index < result[r].report.aqi
        /\ result[r].report.dominant_pollutant # Str(result[r].report.pollutants[1].key)
        /\ result[r].report.aqi > 400
        /\ result[r].report.category = "Severe"
====
